---- MODULE Spec2Model ----
(***************************************************************************)
(* Model of the DICOM core: the ordered Dataset container                  *)
(* (core/dataset.rs), the file-backed DicomDocument (core/document.rs),    *)
(* the VisualRepresentation value union (core/tag.rs) and the generated    *)
(* tag registry (build.rs).                                                *)
(***************************************************************************)
EXTENDS Integers, Sequences, FiniteSets, TLC

VARIABLES
    objects,    \* Dataset.objects: VecDeque<Rc<dyn DicomTag>>
    dlast,      \* the last Dataset call: operation, arguments, pre-state, return
    fs,         \* the filesystem: path -> file content, or NoFile
    doc,        \* the DicomDocument value held by the caller, or NoDoc
    doclast,    \* the last Document call: operation, arguments, pre-state, return
    rt,         \* history: how far an open/write/close/reopen/read sequence has got
    vr,         \* a VisualRepresentation value held by the caller, or NoVR
    vrlast,     \* the last tag.rs / registry call: operation, arguments, return
    owner       \* the attribute whose vr() made the value vr, or NoAttr

vars == <<objects, dlast, fs, doc, doclast, rt, vr, vrlast, owner>>
dsvars == <<objects, dlast>>
docvars == <<fs, doc, doclast, rt>>
tagvars == <<vr, vrlast, owner>>

----------------------------------------------------------------------------
(* Bounds of the model.                                                    *)

\* longest Dataset the model builds
MaxLen == 3
\* longest file content, in characters
MaxFileLen == 32
\* longest dataset handed to write()
MaxWriteLen == 2

----------------------------------------------------------------------------
(* Option<T> and the outcomes of a call.                                   *)

None == [tag |-> "None"]
Some(x) == [tag |-> "Some", val |-> x]
Ok(x) == [tag |-> "Ok", val |-> x]
Err(kind) == [tag |-> "Err", kind |-> kind]
\* a panic!/unwrap()/unimplemented!() that unwinds out of the call
Panic == [tag |-> "Panic"]
Unit == [tag |-> "Unit"]

----------------------------------------------------------------------------
(* The generated registry (build.rs): one unit struct per element of the   *)
(* standards JSON, with the metadata written into its DicomTag impl.       *)

Registry ==
    << [keyword |-> "PatientID", tag |-> <<16, 32>>, vr |-> "LO", retired |-> FALSE],
       [keyword |-> "NetworkID", tag |-> <<8, 4096>>, vr |-> "AE", retired |-> TRUE],
       [keyword |-> "ReferencedStudySequence", tag |-> <<8, 4368>>, vr |-> "SQ", retired |-> FALSE] >>

\* the attribute handles (Rc<dyn DicomTag>) the caller can construct
Attrs == DOMAIN Registry

is_deprecated(a) == Registry[a].retired

----------------------------------------------------------------------------
(* Dataset (core/dataset.rs).  Positions are zero-based as in the source.  *)

At(s, position) == s[position + 1]

\* VecDeque::insert(index, value): shifts the elements at/after index back
VecInsert(s, index, value) ==
    SubSeq(s, 1, index) \o <<value>> \o SubSeq(s, index + 1, Len(s))

\* VecDeque::remove(index): removes and returns, None when out of bounds
VecRemove(s, index) ==
    SubSeq(s, 1, index) \o SubSeq(s, index + 2, Len(s))

get(objs, position) ==
    IF position < Len(objs) THEN Some(At(objs, position)) ELSE None

len(objs) == Len(objs)

is_empty(objs) == Len(objs) = 0

push_back(objs, dicom_object) ==
    [objects |-> Append(objs, dicom_object), ret |-> Unit]

push_front(objs, dicom_object) ==
    [objects |-> <<dicom_object>> \o objs, ret |-> Unit]

\* an insert that overwrites the slot and moves its occupant to the back
insert_swapping(objs, position, dicom_object) ==
    IF position < Len(objs)
    THEN [objects |-> Append([objs EXCEPT ![position + 1] = dicom_object],
                             At(objs, position)),
          ret |-> Unit]
    ELSE [objects |-> objs, ret |-> Panic]

insert(objs, position, dicom_object) ==
    IF position < Len(objs)
    THEN [objects |-> VecInsert(objs, position, dicom_object), ret |-> Unit]
    ELSE [objects |-> objs, ret |-> Panic]

remove_at_shifted(objs, position) ==
    IF position < Len(objs)
    THEN [objects |-> VecRemove(objs, position),
          ret |-> IF position + 1 < Len(objs) THEN Some(At(objs, position + 1))
                  ELSE Some(At(objs, position))]
    ELSE [objects |-> objs, ret |-> None]

remove_at(objs, position) ==
    IF position < Len(objs)
    THEN [objects |-> VecRemove(objs, position), ret |-> Some(At(objs, position))]
    ELSE [objects |-> objs, ret |-> None]

\* inserts before position and returns a reference to the new occupant
replace_at(objs, position, dicom_object) ==
    IF position < Len(objs)
    THEN [objects |-> VecInsert(objs, position, dicom_object),
          ret |-> Some(At(VecInsert(objs, position, dicom_object), position))]
    ELSE [objects |-> objs, ret |-> None]

pop_back(objs) ==
    IF Len(objs) = 0 THEN [objects |-> objs, ret |-> None]
    ELSE [objects |-> SubSeq(objs, 1, Len(objs) - 1), ret |-> Some(objs[Len(objs)])]

pop_front(objs) ==
    IF Len(objs) = 0 THEN [objects |-> objs, ret |-> None]
    ELSE [objects |-> Tail(objs), ret |-> Some(Head(objs))]

clear(objs) == [objects |-> <<>>, ret |-> Unit]

\* (&Dataset).into_iter(): a VecDeque iterator, a cursor over the borrowed
\* objects starting at the front
into_iter(objs) == [objects |-> objs, front |-> 0]

\* Iterator::next: the element under the cursor, then the cursor moves one
\* place towards the back; None once the cursor has passed the last element
next(it) ==
    IF it.front < Len(it.objects)
    THEN [it |-> [it EXCEPT !.front = it.front + 1],
          ret |-> Some(At(it.objects, it.front))]
    ELSE [it |-> it, ret |-> None]

\* the items a for loop over the iterator visits, until next() is None
RECURSIVE collect(_)
collect(it) ==
    IF next(it).ret = None THEN <<>>
    ELSE <<next(it).ret.val>> \o collect(next(it).it)

\* Display of a generated element struct: write!(f, "{:#?}", self) of a unit
\* struct prints the struct's name, the keyword
Display(a) == Registry[a].keyword

\* Display for Dataset: the objects' renderings, concatenated in order
RECURSIVE to_string(_)
to_string(objs) ==
    IF objs = <<>> THEN "" ELSE Display(Head(objs)) \o to_string(Tail(objs))

\* a traversal borrows the dataset immutably: the objects stay as they are
iterate(objs) == [objects |-> objs, ret |-> Ok(collect(into_iter(objs)))]

render(objs) == [objects |-> objs, ret |-> Ok(to_string(objs))]

\* positions a caller may pass: one past the end and beyond included
Positions == 0 .. (MaxLen + 1)

NoPos == 0 - 1
NoAttr == NoPos
NoDsCall == [op |-> "none", position |-> NoPos, dicom_object |-> NoAttr,
             pre |-> <<>>, ret |-> Unit]

\* a Dataset call: applies the operation's outcome r and records the call
DsCall(op, position, dicom_object, r) ==
    /\ dlast.ret.tag # "Panic"
    /\ Len(r.objects) <= MaxLen
    /\ objects' = r.objects
    /\ dlast' = [op |-> op, position |-> position, dicom_object |-> dicom_object,
                 pre |-> objects, ret |-> r.ret]
    /\ UNCHANGED <<docvars, tagvars>>


DsPushBack == \E a \in Attrs : DsCall("push_back", NoPos, a, push_back(objects, a))
DsPushFront == \E a \in Attrs : DsCall("push_front", NoPos, a, push_front(objects, a))
DsInsert == \E p \in Positions, a \in Attrs : DsCall("insert", p, a, insert(objects, p, a))
DsRemoveAt == \E p \in Positions : DsCall("remove_at", p, NoAttr, remove_at(objects, p))
DsReplaceAt == \E p \in Positions, a \in Attrs : DsCall("replace_at", p, a, replace_at(objects, p, a))
DsPopBack == DsCall("pop_back", NoPos, NoAttr, pop_back(objects))
DsPopFront == DsCall("pop_front", NoPos, NoAttr, pop_front(objects))
DsClear == DsCall("clear", NoPos, NoAttr, clear(objects))
DsIterate == DsCall("iterate", NoPos, NoAttr, iterate(objects))
DsRender == DsCall("render", NoPos, NoAttr, render(objects))

DsNext ==
    \/ DsPushBack
    \/ DsPushFront
    \/ DsInsert
    \/ DsRemoveAt
    \/ DsReplaceAt
    \/ DsPopBack
    \/ DsPopFront
    \/ DsClear
    \/ DsIterate
    \/ DsRender


----------------------------------------------------------------------------
(* Claims about the Dataset.                                               *)

\* C1: insert(pos, a) with 0 <= pos <= len succeeds, afterwards get(pos)
\* returns a and len() is one more than before; at pos = len the result
\* equals that of push_back(a).
C1_InsertWithinBounds ==
    (dlast.op = "insert" /\ dlast.position <= Len(dlast.pre)) =>
        /\ dlast.ret = Unit
        /\ get(objects, dlast.position) = Some(dlast.dicom_object)
        /\ len(objects) = Len(dlast.pre) + 1
        /\ (dlast.position = Len(dlast.pre) =>
                objects = Append(dlast.pre, dlast.dicom_object))

\* C2: insert(pos, a) with pos > len returns an out-of-range error to the
\* caller instead of panicking, and leaves the dataset as it was.
C2_InsertOutOfRangeSignals ==
    (dlast.op = "insert" /\ dlast.position > Len(dlast.pre)) =>
        /\ dlast.ret.tag = "Err"
        /\ objects = dlast.pre

\* C3: replace_at(pos, a) with pos < len keeps len(), changes position pos
\* only, makes get(pos) return a and returns the previous occupant; with
\* pos >= len it returns None and changes nothing.
C3_ReplaceAtInPlace ==
    dlast.op = "replace_at" =>
        IF dlast.position < Len(dlast.pre)
        THEN /\ Len(objects) = Len(dlast.pre)
             /\ \A i \in 1 .. Len(dlast.pre) :
                    objects[i] = IF i = dlast.position + 1 THEN dlast.dicom_object
                                 ELSE dlast.pre[i]
             /\ dlast.ret = Some(dlast.pre[dlast.position + 1])
        ELSE /\ dlast.ret = None
             /\ objects = dlast.pre

\* C4: remove_at(pos) with pos >= len (an empty dataset included) returns
\* None without panicking and changes nothing; with pos < len it returns
\* the attribute that was at pos, len() drops by one and the elements after
\* pos move one place earlier.
C4_RemoveAt ==
    dlast.op = "remove_at" =>
        IF dlast.position >= Len(dlast.pre)
        THEN /\ dlast.ret = None
             /\ objects = dlast.pre
        ELSE /\ dlast.ret = Some(dlast.pre[dlast.position + 1])
             /\ Len(objects) = Len(dlast.pre) - 1
             /\ \A i \in 1 .. Len(objects) :
                    objects[i] = IF i <= dlast.position THEN dlast.pre[i]
                                 ELSE dlast.pre[i + 1]

\* a removal from the middle: elements before and after pos, all distinct
C4_Witness ==
    /\ dlast.op = "remove_at"
    /\ dlast.position = 1
    /\ dlast.pre = <<1, 2, 3>>
    /\ objects = <<1, 3>>
    /\ dlast.ret = Some(2)


\* s without its i-th element; s itself for i = 0
Drop(s, i) == IF i = 0 THEN s ELSE SubSeq(s, 1, i - 1) \o SubSeq(s, i + 1, Len(s))

Distinct(s) == \A i, j \in 1 .. Len(s) : s[i] = s[j] => i = j

IndexOf(s, a) == CHOOSE i \in 1 .. Len(s) : s[i] = a

\* the renderings of get(position), get(position + 1), ... up to len() - 1
RECURSIVE RenderFrom(_, _)
RenderFrom(objs, position) ==
    IF get(objs, position) = None THEN ""
    ELSE Display(get(objs, position).val) \o RenderFrom(objs, position + 1)

\* C15: every mutator other than clear keeps the relative order of the
\* attributes that are in the dataset before and after it (what is left when
\* the inserted and the removed element are set aside is the same sequence);
\* iteration yields exactly get(0), ..., get(len() - 1), rendering is their
\* renderings in that order, and a traversal leaves the dataset unchanged,
\* so that a second traversal gives the same result.
C15_OrderPreserved ==
    /\ dlast.op \in {"push_front", "push_back", "insert", "remove_at",
                     "replace_at", "pop_front", "pop_back"} =>
            /\ \E i \in 0 .. Len(dlast.pre), j \in 0 .. Len(objects) :
                    Drop(dlast.pre, i) = Drop(objects, j)
            /\ (Distinct(dlast.pre) /\ Distinct(objects)) =>
                    \A a, b \in Attrs :
                        (/\ \E i \in 1 .. Len(dlast.pre) : dlast.pre[i] = a
                         /\ \E i \in 1 .. Len(dlast.pre) : dlast.pre[i] = b
                         /\ \E i \in 1 .. Len(objects) : objects[i] = a
                         /\ \E i \in 1 .. Len(objects) : objects[i] = b) =>
                            (IndexOf(dlast.pre, a) < IndexOf(dlast.pre, b)
                                <=> IndexOf(objects, a) < IndexOf(objects, b))
    /\ Len(iterate(objects).ret.val) = len(objects)
    /\ \A p \in 0 .. (len(objects) - 1) :
            Some(iterate(objects).ret.val[p + 1]) = get(objects, p)
    /\ render(objects).ret.val = RenderFrom(objects, 0)
    /\ dlast.op = "iterate" =>
            /\ objects = dlast.pre
            /\ dlast.ret = iterate(objects).ret
    /\ dlast.op = "render" =>
            /\ objects = dlast.pre
            /\ dlast.ret = render(objects).ret

\* an insert at the front of two distinct attributes, which stay in order
C15_Witness ==
    /\ dlast.op = "insert"
    /\ dlast.position = 0
    /\ dlast.pre = <<1, 2>>
    /\ objects = <<3, 1, 2>>
    /\ iterate(objects).ret = Ok(<<3, 1, 2>>)


----------------------------------------------------------------------------
(* Document (core/document.rs) over a filesystem.                          *)

\* the paths a caller opens: one with an extension, one without
Paths == {"a.dcm", "scan"}

NoFile == [exists |-> FALSE, content |-> ""]
FileOf(content) == [exists |-> TRUE, content |-> content]

\* n NUL bytes: what the filesystem puts between the end of a file and a
\* write that starts beyond it
RECURSIVE Zeros(_)
Zeros(n) == IF n <= 0 THEN "" ELSE "0" \o Zeros(n - 1)

\* File::write_all(bytes) through handle f; an empty buffer writes nothing
write_all(f, file, bytes) ==
    IF Len(bytes) = 0 THEN [file |-> file, f |-> f]
    ELSE IF f.append
    THEN [file |-> FileOf(file.content \o bytes),
          f |-> [f EXCEPT !.cursor = Len(file.content) + Len(bytes)]]
    ELSE LET size == Len(file.content)
             stop == f.cursor + Len(bytes)
             before == IF f.cursor <= size THEN SubSeq(file.content, 1, f.cursor)
                       ELSE file.content \o Zeros(f.cursor - size)
             after == IF stop < size THEN SubSeq(file.content, stop + 1, size)
                      ELSE ""
         IN  [file |-> FileOf(before \o bytes \o after),
              f |-> [f EXCEPT !.cursor = stop]]

\* the codec stub: unimplemented!()
parse_dicom(input) == Panic

NoDoc == [tag |-> "None"]

DocumentState == {"Open", "Closed", "Modified"}
DocumentMode == {"ReadOnly", "ReadWrite"}
WritingMode == {"Append", "Overwrite", "Truncate"}

open_always_append(fsys, path) ==
    [fs |-> IF fsys[path].exists THEN fsys
            ELSE [fsys EXCEPT ![path] = FileOf("")],
     doc |-> Some([file |-> [path |-> path, append |-> TRUE, read |-> FALSE, cursor |-> 0],
                   path |-> Some(path),
                   state |-> "Open",
                   dataset |-> None,
                   mode |-> "ReadWrite",
                   writer |-> "Append",
                   should_sync |-> TRUE]),
     ret |-> Ok(Unit)]

\* File::options().append(true).open(path) for an existing path,
\* File::create(path) otherwise; neither handle is opened for reading
open(fsys, path) ==
    IF fsys[path].exists
    THEN [fs |-> fsys,
          doc |-> Some([file |-> [path |-> path, append |-> TRUE, read |-> FALSE, cursor |-> 0],
                        path |-> Some(path),
                        state |-> "Open",
                        dataset |-> None,
                        mode |-> "ReadWrite",
                        writer |-> "Append",
                        should_sync |-> TRUE]),
          ret |-> Ok(Unit)]
    ELSE [fs |-> [fsys EXCEPT ![path] = FileOf("")],
          doc |-> Some([file |-> [path |-> path, append |-> FALSE, read |-> FALSE, cursor |-> 0],
                        path |-> Some(path),
                        state |-> "Open",
                        dataset |-> None,
                        mode |-> "ReadWrite",
                        writer |-> "Overwrite",
                        should_sync |-> TRUE]),
          ret |-> Ok(Unit)]

\* a refresh that also marks the document Open again
refresh_reopening(d, fsys) ==
    [fs |-> fsys,
     doc |-> Some([d EXCEPT !.should_sync = TRUE, !.state = "Open"]),
     ret |-> Unit]

refresh(d, fsys) ==
    [fs |-> fsys, doc |-> Some([d EXCEPT !.should_sync = TRUE]), ret |-> Unit]

\* a read that clears the flag before the step that can fail
read_clearing_first(d, fsys) ==
    IF d.should_sync
    THEN [fs |-> fsys, doc |-> Some([d EXCEPT !.should_sync = FALSE]),
          ret |-> Err("IOError")]
    ELSE IF d.dataset.tag = "Some"
         THEN [fs |-> fsys, doc |-> Some(d), ret |-> Ok(d.dataset.val)]
         ELSE [fs |-> fsys, doc |-> Some(d), ret |-> Panic]

\* read_to_string fails on a handle without read access (EBADF -> IOError);
\* on a readable handle the bytes from the cursor on go to parse_dicom
read(d, fsys) ==
    IF d.should_sync
    THEN IF ~d.file.read
         THEN [fs |-> fsys, doc |-> Some(d), ret |-> Err("IOError")]
         ELSE LET content == fsys[d.file.path].content
                  buffer == IF d.file.cursor >= Len(content) THEN ""
                            ELSE SubSeq(content, d.file.cursor + 1, Len(content))
                  moved == [d EXCEPT !.file.cursor =
                                IF d.file.cursor > Len(content) THEN d.file.cursor
                                ELSE Len(content)]
                  parsed == parse_dicom(buffer)
              IN  IF parsed.tag = "Ok"
                  THEN [fs |-> fsys,
                        doc |-> Some([moved EXCEPT !.dataset = Some(parsed.val),
                                                   !.state = "Closed",
                                                   !.should_sync = FALSE]),
                        ret |-> Ok(parsed.val)]
                  ELSE [fs |-> fsys, doc |-> Some(moved), ret |-> parsed]
    ELSE IF d.dataset.tag = "Some"
         THEN [fs |-> fsys, doc |-> Some(d), ret |-> Ok(d.dataset.val)]
         ELSE [fs |-> fsys, doc |-> Some(d), ret |-> Panic]

write_unchecked(d, fsys, dataset) ==
    LET file == fsys[d.file.path]
        w == write_all(d.file, file, to_string(dataset))
    IN  [fs |-> [fsys EXCEPT ![d.file.path] = w.file],
         doc |-> Some([d EXCEPT !.file = w.f, !.state = "Modified"]),
         ret |-> Ok(Unit)]

write_truncating(d, fsys, dataset) ==
    IF d.mode = "ReadOnly"
    THEN [fs |-> fsys, doc |-> Some(d), ret |-> Err("IOError")]
    ELSE LET f == [d.file EXCEPT !.cursor = 0]
             w == write_all(f, FileOf(""), to_string(dataset))
         IN  [fs |-> [fsys EXCEPT ![d.file.path] = w.file],
              doc |-> Some([d EXCEPT !.file = w.f, !.state = "Modified"]),
              ret |-> Ok(Unit)]

write(d, fsys, dataset) ==
    IF d.mode = "ReadOnly"
    THEN [fs |-> fsys, doc |-> Some(d), ret |-> Err("IOError")]
    ELSE LET file0 == fsys[d.file.path]
             \* set_len(0) keeps the cursor; seek(End(0)) moves it to the end
             file == IF d.writer = "Truncate" THEN FileOf("") ELSE file0
             f == IF d.writer = "Append"
                  THEN [d.file EXCEPT !.cursor = Len(file0.content)]
                  ELSE d.file
             w == write_all(f, file, to_string(dataset))
         IN  [fs |-> [fsys EXCEPT ![d.file.path] = w.file],
              doc |-> Some([d EXCEPT !.file = w.f, !.state = "Modified"]),
              ret |-> Ok(Unit)]

close_leaves_state(d, fsys) ==
    [fs |-> fsys,
     doc |-> Some([d EXCEPT !.path = None, !.mode = "ReadOnly"]),
     ret |-> Ok(Unit)]

\* sync_all, then the path is dropped; the File handle stays in the struct
close(d, fsys) ==
    [fs |-> fsys,
     doc |-> Some([d EXCEPT !.path = None, !.state = "Closed", !.mode = "ReadOnly"]),
     ret |-> Ok(Unit)]

is_open(d) == d.state = "Open"

is_modified(d) == d.state = "Modified"

get_path(d) == d.path

\* the characters of a text, in order
Chars(text) == [i \in 1 .. Len(text) |-> SubSeq(text, i, i)]

\* the last position of character c in cs, 0 when there is none
LastIndexOf(cs, c) ==
    IF \E i \in 1 .. Len(cs) : cs[i] = c
    THEN CHOOSE i \in 1 .. Len(cs) : cs[i] = c /\ \A j \in (i + 1) .. Len(cs) : cs[j] # c
    ELSE 0

\* Path::file_name: the final component, None for an empty one or ".."
file_name(path) ==
    LET slash == LastIndexOf(Chars(path), "/")
        name == IF slash = Len(path) THEN "" ELSE SubSeq(path, slash + 1, Len(path))
    IN  IF name = "" \/ name = ".." THEN None ELSE Some(name)

\* Path::extension: what follows the last '.' of the file name; None without
\* a file name, without a '.', or when the only '.' is the first character
extension(path) ==
    IF file_name(path).tag = "None" THEN None
    ELSE LET name == file_name(path).val
             dot == LastIndexOf(Chars(name), ".")
         IN  IF dot <= 1 THEN None
             ELSE IF dot = Len(name) THEN Some("")
             ELSE Some(SubSeq(name, dot + 1, Len(name)))

\* Option::unwrap inside Option::map: a None inside panics
map_unwrap(path, inner) ==
    IF path.tag = "None" THEN None
    ELSE IF inner.tag = "None" THEN Panic ELSE inner

get_name(d) ==
    map_unwrap(d.path, IF d.path.tag = "None" THEN None ELSE file_name(d.path.val))

get_extension(d) ==
    map_unwrap(d.path, IF d.path.tag = "None" THEN None ELSE extension(d.path.val))

\* fs::metadata(p): None stands for its Err on a missing file
metadata(fsys, path) ==
    IF fsys[path].exists
    THEN Some([len |-> Len(fsys[path].content), created |-> "SystemTime",
               modified |-> "SystemTime", accessed |-> "SystemTime"])
    ELSE None

get_size(d, fsys) ==
    LET m == IF d.path.tag = "None" THEN None ELSE metadata(fsys, d.path.val)
    IN  map_unwrap(d.path, IF m.tag = "None" THEN None ELSE Some(m.val.len))

get_creation_date(d, fsys) ==
    LET m == IF d.path.tag = "None" THEN None ELSE metadata(fsys, d.path.val)
    IN  map_unwrap(d.path, IF m.tag = "None" THEN None ELSE Some(m.val.created))

get_modification_date(d, fsys) ==
    LET m == IF d.path.tag = "None" THEN None ELSE metadata(fsys, d.path.val)
    IN  map_unwrap(d.path, IF m.tag = "None" THEN None ELSE Some(m.val.modified))

get_access_date(d, fsys) ==
    LET m == IF d.path.tag = "None" THEN None ELSE metadata(fsys, d.path.val)
    IN  map_unwrap(d.path, IF m.tag = "None" THEN None ELSE Some(m.val.accessed))

\* the results of the seven accessors, in the order of the trait
Accessors(d, fsys) ==
    << get_path(d), get_name(d), get_extension(d), get_size(d, fsys),
       get_creation_date(d, fsys), get_modification_date(d, fsys),
       get_access_date(d, fsys) >>

\* the datasets a caller hands to write()
RECURSIVE SeqsUpTo(_, _)
SeqsUpTo(S, n) ==
    IF n = 0 THEN {<<>>}
    ELSE SeqsUpTo(S, n - 1) \cup
         {Append(q, x) : q \in {t \in SeqsUpTo(S, n - 1) : Len(t) = n - 1}, x \in S}

WriteDatasets == SeqsUpTo(Attrs, MaxWriteLen)

NoDocCall == [op |-> "none", path |-> "", dataset |-> <<>>,
              prefs |-> [p \in Paths |-> NoFile], predoc |-> NoDoc, ret |-> Unit]

\* History of the sequence open(p) on a new path, write(d), close(), open(p),
\* read(): the stage reached; any other call starts over.
NoRt == [stage |-> "none", path |-> "", dataset |-> <<>>]

RtStep(h, op, path, dataset, r, prefs) ==
    CASE op = "open" /\ h.stage = "closed" /\ path = h.path ->
            [h EXCEPT !.stage = "reopened"]
      [] op = "open" /\ ~(h.stage = "closed" /\ path = h.path) /\ ~prefs[path].exists ->
            [stage |-> "opened", path |-> path, dataset |-> <<>>]
      [] op = "write" /\ h.stage = "opened" /\ r.ret.tag = "Ok" ->
            [h EXCEPT !.stage = "written", !.dataset = dataset]
      [] op = "close" /\ h.stage = "written" /\ r.ret.tag = "Ok" ->
            [h EXCEPT !.stage = "closed"]
      [] op = "read" /\ h.stage = "reopened" ->
            [h EXCEPT !.stage = "read"]
      [] OTHER -> NoRt

\* a Document call: applies the outcome r and records the call
DocCall(op, path, dataset, r) ==
    /\ doclast.ret.tag # "Panic"
    /\ \A p \in Paths : Len(r.fs[p].content) <= MaxFileLen
    /\ fs' = r.fs
    /\ doc' = r.doc
    /\ doclast' = [op |-> op, path |-> path, dataset |-> dataset,
                   prefs |-> fs, predoc |-> doc, ret |-> r.ret]
    /\ rt' = RtStep(rt, op, path, dataset, r, fs)
    /\ UNCHANGED <<dsvars, tagvars>>

\* the caller constructs a document; one it already held is dropped
DocOpen == \E p \in Paths : DocCall("open", p, <<>>, open(fs, p))

DocRefresh ==
    /\ doc.tag = "Some"
    /\ DocCall("refresh", "", <<>>, refresh(doc.val, fs))

DocRead ==
    /\ doc.tag = "Some"
    /\ DocCall("read", "", <<>>, read(doc.val, fs))

DocWrite ==
    /\ doc.tag = "Some"
    /\ \E ds \in WriteDatasets : DocCall("write", "", ds, write(doc.val, fs, ds))

DocClose ==
    /\ doc.tag = "Some"
    /\ DocCall("close", "", <<>>, close(doc.val, fs))

DocNext ==
    \/ DocOpen
    \/ DocRefresh
    \/ DocRead
    \/ DocWrite
    \/ DocClose

\* files that exist before the program runs
InitContents == {"PatientID"}
InitFs == [Paths -> {NoFile} \cup {FileOf(c) : c \in InitContents}]

----------------------------------------------------------------------------
(* Claims about the Document.                                              *)

\* C5: a document in ReadOnly mode, which every document is after close(),
\* rejects write() with an IOError, and the rejected write changes neither
\* the files on disk nor the document's lifecycle state.
C5_ReadOnlyRejectsWrite ==
    /\ (doclast.op = "close" /\ doclast.ret.tag = "Ok") => doc.val.mode = "ReadOnly"
    /\ (doclast.op = "write" /\ doclast.predoc.val.mode = "ReadOnly") =>
            /\ doclast.ret = Err("IOError")
            /\ fs = doclast.prefs
            /\ doc.val.state = doclast.predoc.val.state

\* a write of a non-empty dataset to a closed document over a non-empty file
C5_Witness ==
    /\ doclast.op = "write"
    /\ doclast.predoc.val.mode = "ReadOnly"
    /\ doclast.dataset # <<>>
    /\ doclast.ret.tag = "Err"
    /\ fs[doc.val.file.path].content # ""
    /\ doc.val.state = "Closed"

\* C6: open(path) on a path that does not exist creates the file and yields
\* a document with state Open, mode ReadWrite and disposition Overwrite;
\* on a path that exists it yields state Open, mode ReadWrite and
\* disposition Append and leaves the file content as it was.
C6_Open ==
    doclast.op = "open" =>
        /\ doclast.ret.tag = "Ok"
        /\ doc.val.state = "Open"
        /\ doc.val.mode = "ReadWrite"
        /\ doc.val.path = Some(doclast.path)
        /\ fs[doclast.path].exists
        /\ \A p \in Paths \ {doclast.path} : fs[p] = doclast.prefs[p]
        /\ IF doclast.prefs[doclast.path].exists
           THEN /\ doc.val.writer = "Append"
                /\ fs[doclast.path] = doclast.prefs[doclast.path]
           ELSE /\ doc.val.writer = "Overwrite"
                /\ fs[doclast.path].content = ""

\* an open of an existing non-empty file next to an open that created one
C6_Witness ==
    /\ doclast.op = "open"
    /\ doclast.prefs[doclast.path].exists
    /\ doclast.prefs[doclast.path].content # ""
    /\ doc.val.writer = "Append"
    /\ doclast.predoc.tag = "Some"
    /\ doclast.predoc.val.writer = "Overwrite"

\* C7: open, write(d), close(), reopen the same path, read() returns a
\* dataset equivalent to d (the same attributes in the same order).
C7_WriteCloseReopenRead ==
    rt.stage = "read" => doclast.ret = Ok(rt.dataset)

\* C11: the document is always in exactly one of Open, Closed, Modified, and
\* the state is that of the last successful state-changing call: Open after
\* open, Modified after a successful write, Closed after a successful close
\* and after a read that decoded from disk; refresh and failed calls leave
\* it unchanged; is_open() holds exactly in Open, is_modified() exactly in
\* Modified.
C11_Lifecycle ==
    doc.tag = "Some" =>
        /\ doc.val.state \in DocumentState
        /\ is_open(doc.val) <=> doc.val.state = "Open"
        /\ is_modified(doc.val) <=> doc.val.state = "Modified"
        /\ ~(is_open(doc.val) /\ is_modified(doc.val))
        /\ doclast.op = "open" => doc.val.state = "Open"
        /\ (doclast.op = "write" /\ doclast.ret.tag = "Ok") => doc.val.state = "Modified"
        /\ (doclast.op = "close" /\ doclast.ret.tag = "Ok") => doc.val.state = "Closed"
        /\ (doclast.op = "read" /\ doclast.ret.tag = "Ok" /\ doclast.predoc.val.should_sync) =>
                doc.val.state = "Closed"
        /\ (\/ doclast.op = "refresh"
            \/ (doclast.op \in {"read", "write", "close"} /\ doclast.ret.tag = "Err")
            \/ (doclast.op = "read" /\ ~doclast.predoc.val.should_sync)) =>
                doc.val.state = doclast.predoc.val.state

\* a close of a document that a write had made Modified
C11_Witness ==
    /\ doclast.op = "close"
    /\ doclast.predoc.val.state = "Modified"
    /\ doc.val.state = "Closed"
    /\ ~is_open(doc.val)
    /\ ~is_modified(doc.val)

\* C12: read() decodes the backing file exactly when the needs-refresh flag
\* is set, and the decode clears the flag; with the flag clear read()
\* returns the dataset decoded before and changes nothing; refresh() sets
\* the flag and changes nothing else, so the read after it decodes again.
C12_ReadRefresh ==
    /\ (doclast.op = "read" /\ doclast.predoc.val.should_sync) =>
            /\ doclast.ret.tag = "Ok"
            /\ doc.val.dataset = Some(doclast.ret.val)
            /\ ~doc.val.should_sync
    /\ (doclast.op = "read" /\ ~doclast.predoc.val.should_sync) =>
            /\ doclast.ret.tag = "Ok"
            /\ Some(doclast.ret.val) = doclast.predoc.val.dataset
            /\ doc = doclast.predoc
            /\ fs = doclast.prefs
    /\ doclast.op = "refresh" =>
            /\ doc.val = [doclast.predoc.val EXCEPT !.should_sync = TRUE]
            /\ fs = doclast.prefs

C14_CloseDiscardsPath ==
    doc.tag = "Some" =>
        /\ (doclast.op = "close" /\ doclast.ret.tag = "Ok") =>
                /\ doc.val.state = "Closed"
                /\ doc.val.mode = "ReadOnly"
                /\ doc.val.path = None
        /\ (doclast.op # "open" /\ doclast.predoc.val.path = None) => doc.val.path = None
        /\ doc.val.path = None =>
                \A i \in 1 .. 7 : Accessors(doc.val, fs)[i] = None
        /\ doc.val.path # None =>
                \A i \in 1 .. 7 : Accessors(doc.val, fs)[i].tag = "Some"

\* the results of every call the Document trait offers a caller that holds
\* document d: the constructor and the four mutating methods
CallerOutcomes(d, fsys) ==
    {open(fsys, p) : p \in Paths}
        \cup {refresh(d, fsys), read(d, fsys), close(d, fsys)}
        \cup {write(d, fsys, ds) : ds \in WriteDatasets}

\* C16: open() sets the write disposition by whether the file pre-existed
\* (Append if it did, Overwrite if not); read, write, refresh and close
\* leave it as it was; and for each of Append, Overwrite and Truncate the
\* caller has a call that gives the document that disposition.
C16_DispositionFixedOverridable ==
    doc.tag = "Some" =>
        /\ doc.val.writer \in WritingMode
        /\ (doclast.op = "open" /\ doclast.ret.tag = "Ok") =>
                doc.val.writer = IF doclast.prefs[doclast.path].exists
                                 THEN "Append" ELSE "Overwrite"
        /\ doclast.op \in {"read", "write", "refresh", "close"} =>
                doc.val.writer = doclast.predoc.val.writer
        /\ \A w \in WritingMode :
                \E r \in CallerOutcomes(doc.val, fs) :
                    r.doc.tag = "Some" /\ r.doc.val.writer = w

\* C18: whenever the needs-refresh flag is clear a decoded dataset is
\* present, so no read() unwraps an absent dataset (none panics), whatever
\* reads, refreshes, writes and closes came before; a read that fails leaves
\* the flag set and the cached dataset as it was.
C18_CacheInvariant ==
    doc.tag = "Some" =>
        /\ ~doc.val.should_sync => doc.val.dataset.tag = "Some"
        /\ read(doc.val, fs).ret.tag # "Panic"
        /\ doclast.op = "read" =>
                /\ doclast.ret.tag # "Panic"
                /\ doclast.ret.tag = "Err" =>
                        /\ doc.val.should_sync
                        /\ doc.val.dataset = doclast.predoc.val.dataset

\* a read that failed on a document that had been written to and closed
C18_Witness ==
    /\ doclast.op = "read"
    /\ doclast.ret.tag = "Err"
    /\ doclast.predoc.val.state = "Closed"
    /\ fs[doc.val.file.path].content = "PatientIDNetworkID"
    /\ doc.val.should_sync
    /\ doc.val.dataset = None

\* C19: the mode is ReadOnly exactly when the path is absent, and a ReadOnly
\* document is Closed; once ReadOnly, no call on the document makes it
\* ReadWrite, Open or Modified again; a read changes neither mode nor path,
\* so a document that a read has made Closed is still ReadWrite, and every
\* ReadWrite document accepts write().
C19_ModePathState ==
    doc.tag = "Some" =>
        /\ doc.val.mode \in DocumentMode
        /\ doc.val.mode = "ReadOnly" <=> doc.val.path = None
        /\ doc.val.mode = "ReadOnly" => doc.val.state = "Closed"
        /\ (doclast.op # "open" /\ doclast.predoc.val.mode = "ReadOnly") =>
                /\ doc.val.mode = "ReadOnly"
                /\ doc.val.state = "Closed"
        /\ doclast.op = "read" =>
                /\ doc.val.mode = doclast.predoc.val.mode
                /\ doc.val.path = doclast.predoc.val.path
        /\ (doclast.op = "read" /\ doclast.ret.tag = "Ok"
                /\ doclast.predoc.val.mode = "ReadWrite") =>
                /\ doc.val.state = "Closed"
                /\ doc.val.mode = "ReadWrite"
        /\ doc.val.mode = "ReadWrite" =>
                \A ds \in WriteDatasets : write(doc.val, fs, ds).ret.tag = "Ok"

\* a refresh of a document that close() had made ReadOnly
C19_Witness ==
    /\ doclast.op = "refresh"
    /\ doclast.predoc.val.mode = "ReadOnly"
    /\ doclast.predoc.val.path = None
    /\ doc.val.mode = "ReadOnly"
    /\ doc.val.state = "Closed"
    /\ doc.val.path = None

----------------------------------------------------------------------------
(* VisualRepresentation (core/tag.rs).  A value is its variant and its      *)
(* payload; payloads carry their shape so that values of different kinds   *)
(* compare unequal.                                                        *)

Str(t) == [t |-> "str", v |-> t]
Num(n) == [t |-> "num", v |-> n]
\* a decimal number mant / 10^frac, without trailing fractional zeros
Flt(mant, frac) == [t |-> "flt", v |-> <<mant, frac>>]
Vec(items) == [t |-> "vec", v |-> items]
Date(y, m, d) == [t |-> "date", v |-> <<y, m, d>>]
Time(h, m, sec) == [t |-> "time", v |-> <<h, m, sec>>]
DateTime(y, m, d, h, mi, sec) == [t |-> "datetime", v |-> <<y, m, d, h, mi, sec>>]

VR(kind, payload) == [kind |-> kind, payload |-> payload]

StringKinds == {"AE", "AS", "AT", "CS", "DS", "IS", "LO", "LT", "PN", "SH",
                "ST", "UC", "UI", "UR", "UT"}
IntKinds == {"SL", "SS", "SV", "UL", "US"}
FloatKinds == {"FL", "FD"}
NumericKinds == IntKinds \cup FloatKinds
IntVecKinds == {"OL", "OV", "OW"}
FloatVecKinds == {"OD", "OF"}
BlobKinds == {"OB", "UN"}
Variants == StringKinds \cup NumericKinds \cup IntVecKinds \cup FloatVecKinds
            \cup BlobKinds \cup {"DA", "DT", "TM", "SQ"}

Digits == {"0", "1", "2", "3", "4", "5", "6", "7", "8", "9"}

DigitVal(c) == CHOOSE d \in 0 .. 9 : SubSeq("0123456789", d + 1, d + 1) = c

RECURSIVE DigitsValue(_, _)
DigitsValue(cs, acc) ==
    IF cs = <<>> THEN acc ELSE DigitsValue(Tail(cs), acc * 10 + DigitVal(Head(cs)))

AllDigits(cs) == \A i \in 1 .. Len(cs) : cs[i] \in Digits

I16Min == 0 - 32768
I16Max == 32767
U16Max == 65535
I32Max == 2147483647
I32Min == (0 - I32Max) - 1

\* the range of the integer type behind a kind; the model's integers are 32
\* bits wide, so for u32 and i64 only the lower end is stated: no text of
\* Texts reaches their upper end
InRange(ty, n) ==
    CASE ty = "i16" -> I16Min <= n /\ n <= I16Max
      [] ty = "u16" -> 0 <= n /\ n <= U16Max
      [] ty = "i32" -> I32Min <= n /\ n <= I32Max
      [] ty = "u32" -> 0 <= n
      [] ty = "i64" -> TRUE

Signed(ty) == ty \in {"i16", "i32", "i64"}

\* <int as FromStr>::from_str: an optional sign ('-' only for signed types),
\* then decimal digits only, within the type's range
parse_int(ty, text) ==
    LET cs == Chars(text)
    IN  IF cs = <<>> THEN Err("Empty")
        ELSE IF Len(cs) = 1 /\ cs[1] \in {"+", "-"} THEN Err("InvalidDigit")
        ELSE LET neg == Signed(ty) /\ cs[1] = "-"
                 body == IF cs[1] = "+" \/ neg THEN Tail(cs) ELSE cs
             IN  IF ~AllDigits(body) THEN Err("InvalidDigit")
                 ELSE LET n == IF neg THEN 0 - DigitsValue(body, 0)
                               ELSE DigitsValue(body, 0)
                      IN  IF InRange(ty, n) THEN Ok(Num(n))
                          ELSE Err(IF neg THEN "NegOverflow" ELSE "PosOverflow")

RECURSIVE Normal(_, _)
Normal(mant, frac) ==
    IF frac > 0 /\ mant % 10 = 0 THEN Normal(mant \div 10, frac - 1)
    ELSE Flt(mant, frac)

IndexOfDot(cs) ==
    IF \E i \in 1 .. Len(cs) : cs[i] = "."
    THEN CHOOSE i \in 1 .. Len(cs) : cs[i] = "." /\ \A j \in 1 .. (i - 1) : cs[j] # "."
    ELSE 0

\* <f32/f64 as FromStr>::from_str on plain decimals: an optional sign, digits
\* with at most one '.', at least one digit (exponents and inf/nan are not
\* among Texts)
parse_float(text) ==
    LET cs == Chars(text)
        signed == cs # <<>> /\ cs[1] \in {"+", "-"}
        body == IF signed THEN Tail(cs) ELSE cs
        dot == IndexOfDot(body)
        ip == IF dot = 0 THEN body ELSE SubSeq(body, 1, dot - 1)
        fp == IF dot = 0 THEN <<>> ELSE SubSeq(body, dot + 1, Len(body))
        mag == DigitsValue(ip \o fp, 0)
    IN  IF Len(ip) + Len(fp) = 0 \/ ~AllDigits(ip) \/ ~AllDigits(fp)
        THEN Err("Invalid")
        ELSE Ok(Normal(IF signed /\ cs[1] = "-" THEN 0 - mag ELSE mag, Len(fp)))

IntTypeOf(kind) ==
    CASE kind = "SL" -> "i32" [] kind = "SS" -> "i16" [] kind = "SV" -> "i64"
      [] kind = "UL" -> "u32" [] kind = "US" -> "u16"
      [] kind = "OL" -> "u32" [] kind = "OV" -> "i64" [] kind = "OW" -> "u16"

\* str::parse::<T>() for the number type of a numeric kind
parse_number(kind, text) ==
    IF kind \in FloatKinds \cup FloatVecKinds THEN parse_float(text)
    ELSE parse_int(IntTypeOf(kind), text)

\* str::split_whitespace
RECURSIVE SplitFrom(_, _, _)
SplitFrom(cs, cur, acc) ==
    IF cs = <<>> THEN (IF cur = "" THEN acc ELSE Append(acc, cur))
    ELSE IF Head(cs) = " "
         THEN SplitFrom(Tail(cs), "", IF cur = "" THEN acc ELSE Append(acc, cur))
         ELSE SplitFrom(Tail(cs), cur \o Head(cs), acc)

split_whitespace(text) == SplitFrom(Chars(text), "", <<>>)

\* value.split_whitespace().map(|v| v.parse().unwrap()).collect()
parse_vector(kind, text) ==
    LET toks == split_whitespace(text)
        parsed == [i \in 1 .. Len(toks) |-> parse_number(kind, toks[i])]
    IN  IF \E i \in 1 .. Len(toks) : parsed[i].tag = "Err" THEN Err("Invalid")
        ELSE Ok(Vec([i \in 1 .. Len(toks) |-> parsed[i].val]))

TwoDigits(cs, i) == DigitsValue(SubSeq(cs, i, i + 1), 0)

LeapYear(y) == (y % 4 = 0 /\ y % 100 # 0) \/ y % 400 = 0

DaysIn(y, m) ==
    IF m = 2 THEN (IF LeapYear(y) THEN 28 + 1 ELSE 28)
    ELSE IF m \in {4, 6, 9, 11} THEN 30 ELSE 31

ValidDate(y, m, d) == m \in 1 .. 12 /\ d \in 1 .. DaysIn(y, m)
ValidTime(h, mi, sec) == h \in 0 .. 23 /\ mi \in 0 .. 59 /\ sec \in 0 .. 59

\* NaiveDate::parse_from_str(value, "%Y%m%d") on the texts of Texts: eight
\* digits that name a calendar date
parse_date(text) ==
    LET cs == Chars(text)
    IN  IF Len(cs) # 8 \/ ~AllDigits(cs) THEN Err("InvalidDate")
        ELSE LET y == DigitsValue(SubSeq(cs, 1, 4), 0)
                 m == TwoDigits(cs, 5)
                 d == TwoDigits(cs, 7)
             IN  IF ValidDate(y, m, d) THEN Ok(Date(y, m, d)) ELSE Err("InvalidDate")

\* NaiveTime::parse_from_str(value, "%H%M%S%.6f") without a fraction
parse_time(text) ==
    LET cs == Chars(text)
    IN  IF Len(cs) # 6 \/ ~AllDigits(cs) THEN Err("InvalidTime")
        ELSE LET h == TwoDigits(cs, 1)
                 mi == TwoDigits(cs, 3)
                 sec == TwoDigits(cs, 5)
             IN  IF ValidTime(h, mi, sec) THEN Ok(Time(h, mi, sec)) ELSE Err("InvalidTime")

\* NaiveDateTime::parse_from_str(value, "%Y%m%d%H%M%S%.6f") without a fraction
parse_datetime(text) ==
    LET cs == Chars(text)
    IN  IF Len(cs) # 14 \/ ~AllDigits(cs) THEN Err("InvalidDateTime")
        ELSE LET y == DigitsValue(SubSeq(cs, 1, 4), 0)
                 m == TwoDigits(cs, 5)
                 d == TwoDigits(cs, 7)
                 h == TwoDigits(cs, 9)
                 mi == TwoDigits(cs, 11)
                 sec == TwoDigits(cs, 13)
             IN  IF ValidDate(y, m, d) /\ ValidTime(h, mi, sec)
                 THEN Ok(DateTime(y, m, d, h, mi, sec))
                 ELSE Err("InvalidDateTime")

\* the match of from_string and of set_inner: the parsing rule of a variant
\* applied to a text; Err where the source calls unwrap() on a failed parse
Rule(kind, text) ==
    CASE kind \in StringKinds -> Ok(Str(text))
      [] kind \in NumericKinds -> parse_number(kind, text)
      [] kind \in IntVecKinds \cup FloatVecKinds -> parse_vector(kind, text)
      [] kind \in BlobKinds -> Ok(Vec(Chars(text)))
      [] kind = "DA" -> parse_date(text)
      [] kind = "TM" -> parse_time(text)
      [] kind = "DT" -> parse_datetime(text)

\* Result::unwrap
unwrap(r) == IF r.tag = "Ok" THEN r ELSE Panic

\* an unrecognised VR name gives UN; SQ ignores the text
from_string(vrname, value) ==
    LET kind == IF vrname \in Variants THEN vrname ELSE "UN"
    IN  IF kind = "SQ" THEN Ok(VR("SQ", Vec(<<>>)))
        ELSE LET r == unwrap(Rule(kind, value))
             IN  IF r.tag = "Ok" THEN Ok(VR(kind, r.val)) ELSE Panic

new(vrname) ==
    LET kind == IF vrname \in Variants THEN vrname ELSE "UN"
    IN  CASE kind \in StringKinds -> VR(kind, Str(""))
          [] kind \in IntKinds -> VR(kind, Num(0))
          [] kind \in FloatKinds -> VR(kind, Flt(0, 0))
          [] kind \in IntVecKinds \cup FloatVecKinds \cup BlobKinds \cup {"SQ"} ->
                VR(kind, Vec(<<>>))
          [] kind = "DA" -> VR(kind, Date(1970, 1, 1))
          [] kind = "DT" -> VR(kind, DateTime(1970, 1, 1, 0, 0, 0))
          [] kind = "TM" -> VR(kind, Time(0, 0, 0))

\* DicomValue: String(&dyn ToString) | Object(Rc) | ObjectVec(Vec<Rc>)
DvString(t) == [tag |-> "String", text |-> t, objs |-> <<>>]
DvObject(a) == [tag |-> "Object", text |-> "", objs |-> <<a>>]
DvObjectVec(q) == [tag |-> "ObjectVec", text |-> "", objs |-> q]

\* {:#?} of a Vec of unit structs
RECURSIVE DebugItems(_)
DebugItems(q) ==
    IF q = <<>> THEN "" ELSE "    " \o Display(Head(q)) \o ",\n" \o DebugItems(Tail(q))

DebugVec(q) == IF q = <<>> THEN "[]" ELSE "[\n" \o DebugItems(q) \o "]"

\* Display for DicomValue
dv_to_string(value) ==
    CASE value.tag = "String" -> value.text
      [] value.tag = "Object" -> Display(value.objs[1])
      [] value.tag = "ObjectVec" -> DebugVec(value.objs)

object_vec(value) == IF value.tag = "ObjectVec" THEN value.objs ELSE <<>>

\* set_inner works on UnsafeCell::new(self.clone()): the value computed here
\* is stored into the clone, which is dropped when set_inner returns
set_inner_clone(self, value) ==
    IF self.kind = "SQ" THEN Ok(VR("SQ", Vec(object_vec(value))))
    ELSE LET r == unwrap(Rule(self.kind, dv_to_string(value)))
         IN  IF r.tag = "Ok" THEN Ok(VR(self.kind, r.val)) ELSE Panic

\* a set that stores the new payload into self
set_in_place(self, value) ==
    IF set_inner_clone(self, value).tag = "Panic"
    THEN [vr |-> self, ret |-> Panic]
    ELSE [vr |-> set_inner_clone(self, value).val,
          ret |-> Ok(set_inner_clone(self, value).val)]

\* set returns self; a failed parse unwinds out of it
set(self, value) ==
    IF set_inner_clone(self, value).tag = "Panic"
    THEN [vr |-> self, ret |-> Panic]
    ELSE [vr |-> self, ret |-> Ok(self)]

\* DicomTag::vr() of a generated element: a value made by new() at each call
attr_vr(a) == new(Registry[a].vr)

\* a generated element is a unit struct: writing its name constructs it; no
\* constructor takes or checks a legacy-allow flag
construct(a, force) == Ok(a)

\* the texts a caller passes; all short enough for their numeric value to
\* fit the model's 32-bit integers
Texts == {"", "x", "12", "-3", "1.5", "70000", "1 2", "1 x",
          "20240131", "20241301", "235959"}

\* the VR names a caller passes: every variant and one unknown name
VrNames == Variants \cup {"XX"}

DicomValues ==
    {DvString(t) : t \in Texts} \cup {DvObject(a) : a \in Attrs}
    \cup {DvObjectVec(q) : q \in {<<>>, <<1>>, <<3, 1>>}}

NoVR == VR("none", Str(""))
NoValue == DvString("")
NoTagCall == [op |-> "none", kind |-> "", text |-> "", value |-> NoValue,
              attr |-> NoAttr, force |-> FALSE, pre |-> NoVR, ret |-> Unit]

TagCall(call, newvr, newowner) ==
    /\ vrlast.ret.tag # "Panic"
    /\ vr' = newvr
    /\ vrlast' = call
    /\ owner' = newowner
    /\ UNCHANGED <<dsvars, docvars>>

\* from_string and new are constructors: the caller makes one value and
\* from then on works with it
VrFromString ==
    /\ vr = NoVR
    /\ \E k \in VrNames, t \in Texts :
        LET r == from_string(k, t)
        IN  TagCall([NoTagCall EXCEPT !.op = "from_string", !.kind = k, !.text = t,
                                      !.pre = vr, !.ret = r],
                    IF r.tag = "Ok" THEN r.val ELSE vr, owner)

VrNew ==
    /\ vr = NoVR
    /\ \E k \in VrNames :
        TagCall([NoTagCall EXCEPT !.op = "new", !.kind = k, !.pre = vr,
                                  !.ret = Ok(new(k))],
                new(k), owner)

VrSet ==
    /\ vr # NoVR
    /\ \E value \in DicomValues :
        LET r == set(vr, value)
        IN  TagCall([NoTagCall EXCEPT !.op = "set", !.value = value, !.pre = vr,
                                      !.ret = r.ret],
                    r.vr, owner)

\* the caller asks attribute a for its value: DicomTag::vr() builds it with
\* new() from the element's VR name, and the caller works with that value
AttrVr ==
    /\ vr = NoVR
    /\ \E a \in Attrs :
        TagCall([NoTagCall EXCEPT !.op = "vr", !.attr = a, !.pre = vr,
                                  !.ret = Ok(attr_vr(a))],
                attr_vr(a), a)

AttrConstruct ==
    \E a \in Attrs, force \in BOOLEAN :
        TagCall([NoTagCall EXCEPT !.op = "construct", !.attr = a, !.force = force,
                                  !.pre = vr, !.ret = construct(a, force)],
                vr, owner)

TagNext ==
    \/ VrFromString
    \/ VrNew
    \/ VrSet
    \/ AttrVr
    \/ AttrConstruct

----------------------------------------------------------------------------
(* Claims about VR values and attribute construction.                      *)

\* C8: set(x) never changes the active variant; when x is valid for the
\* value's kind k, the value afterwards holds the payload from_string(k, x)
\* produces; when x is invalid, set returns an error and the value is
\* unchanged.
C8_SetInPlace ==
    (vrlast.op = "set" /\ vrlast.value.tag = "String") =>
        /\ vr.kind = vrlast.pre.kind
        /\ IF Rule(vrlast.pre.kind, vrlast.value.text).tag = "Ok"
           THEN /\ vrlast.ret.tag = "Ok"
                /\ Ok(vr) = from_string(vrlast.pre.kind, vrlast.value.text)
           ELSE /\ vrlast.ret.tag = "Err"
                /\ vr = vrlast.pre

\* C9: for a numeric kind and a text that is not a valid number of that
\* kind, from_string returns an InvalidValue error to the caller; it
\* neither yields a value nor panics.
C9_NumericRejectsInvalid ==
    (/\ vrlast.op = "from_string"
     /\ vrlast.kind \in NumericKinds
     /\ parse_number(vrlast.kind, vrlast.text).tag = "Err") =>
        vrlast.ret = Err("InvalidValue")

\* C10: constructing an attribute for a deprecated tag fails with
\* ObsoleteElement without the legacy-allow flag and succeeds with it;
\* for a tag that is not deprecated it succeeds without the flag.
C10_ObsoleteElement ==
    vrlast.op = "construct" =>
        IF is_deprecated(vrlast.attr) /\ ~vrlast.force
        THEN vrlast.ret = Err("ObsoleteElement")
        ELSE vrlast.ret = Ok(vrlast.attr)

\* the attributes held by attribute a's value: those of the value the caller
\* obtained from a.vr() and has been setting, while the caller holds it; of
\* a value a.vr() makes, otherwise
Items(a) ==
    LET value == IF owner = a THEN vr ELSE attr_vr(a)
    IN  IF value.kind = "SQ"
        THEN {value.payload.v[i] : i \in 1 .. Len(value.payload.v)}
        ELSE {}

\* the attributes a contains through at most n levels of nesting
RECURSIVE Nested(_, _)
Nested(a, n) ==
    IF n = 0 THEN {}
    ELSE Items(a) \cup UNION {Nested(b, n - 1) : b \in Items(a)}

\* C17: no attribute's sequence value contains the attribute itself, at any
\* depth of nesting.
C17_SequenceAcyclic ==
    \A a \in Attrs : a \notin Nested(a, Cardinality(Attrs))

\* set() of a sequence that names the SQ attribute itself, on the value of
\* that attribute
C17_Witness ==
    /\ vrlast.op = "set"
    /\ vrlast.ret.tag = "Ok"
    /\ owner \in Attrs
    /\ Registry[owner].vr = "SQ"
    /\ vrlast.pre.kind = "SQ"
    /\ vrlast.value = DvObjectVec(<<owner, 1>>)
    /\ owner \notin Nested(owner, Cardinality(Attrs))

----------------------------------------------------------------------------
DsInit == objects = <<>> /\ dlast = NoDsCall

DocInit == doc = NoDoc /\ doclast = NoDocCall /\ rt = NoRt

TagInit == vr = NoVR /\ vrlast = NoTagCall /\ owner = NoAttr

\* an empty dataset; no file on disk
InitDataset == DsInit /\ DocInit /\ TagInit /\ fs = [p \in Paths |-> NoFile]

\* no document yet; any of the paths may exist on disk already
InitDocument == DsInit /\ DocInit /\ TagInit /\ fs \in InitFs

SpecDataset == InitDataset /\ [][DsNext]_vars

SpecDocument == InitDocument /\ [][DocNext]_vars

SpecTag == InitDataset /\ [][TagNext]_vars

====
